---- MODULE Spec2Model ----
(***************************************************************************)
(* A model of bot.py: the SQLite-backed store (DatabaseManager), the six   *)
(* command handlers and the start-up sequence.                             *)
(*                                                                         *)
(* Strings are sequences of one-character strings, so that int() and       *)
(* str.startswith() are computed character by character; the state holds   *)
(* a string by its name and Chars gives its characters.  A command event   *)
(* is a new message (update.message is set) carrying a sender id and the   *)
(* argument list context.args.  A handler makes all its store calls before *)
(* its only await (the reply), so a handler is one step and concurrent     *)
(* handlers are these steps in any order.                                  *)
(***************************************************************************)
EXTENDS Integers, Sequences, FiniteSets

VARIABLES
    pc,                 \* position of the process: import / main / polling / crashed
    bot_token,          \* BOT_TOKEN: TRUE when the environment variable is set
    db_file,            \* TRUE once the tables of bot_data.db exist
    todo,               \* admin ids the for-loop of main() has not visited yet
    authorized_users,   \* table authorized_users: user_id values in rowid order
    invite_links,       \* table invite_links: rows in rowid order
    sqlite_sequence,    \* AUTOINCREMENT high-water mark of invite_links
    clock,              \* CURRENT_TIMESTAMP, in whole seconds
    last,               \* the update handled last and the reply it produced
    revoked,            \* ids deleted by a completed remove_user and not inserted since
    calls               \* concurrent add_authorized_user callers (SpecAdd only)

vars == <<pc, bot_token, db_file, todo, authorized_users, invite_links,
          sqlite_sequence, clock, last, revoked, calls>>

\* ---------------------------------------------------------------- bounds

MaxLinks == 2           \* rows the invite_links table may hold
MaxClock == 1           \* CURRENT_TIMESTAMP ranges over 0 .. MaxClock
NumCallers == 3         \* concurrent add_authorized_user callers in SpecAdd

\* --------------------------------------------------------- configuration

ADMIN_IDS == {123456789, 987654321}

\* the ids that occur in the store and as command arguments: the admins and
\* one other user
Users == ADMIN_IDS \cup {42}

\* the senders of the command events: one admin and the other user (is_admin
\* treats every member of ADMIN_IDS alike)
Senders == {123456789, 42}

\* ---------------------------------------------------------------- strings

Digits == <<"0", "1", "2", "3", "4", "5", "6", "7", "8", "9">>

IsDigit(c) == \E i \in 1..10 : Digits[i] = c

DigitVal(c) == (CHOOSE i \in 1..10 : Digits[i] = c) - 1

RECURSIVE DigitsVal(_)
DigitsVal(s) ==
    IF s = <<>> THEN 0
    ELSE 10 * DigitsVal(SubSeq(s, 1, Len(s) - 1)) + DigitVal(s[Len(s)])

AllDigits(s) == Len(s) > 0 /\ \A i \in 1..Len(s) : IsDigit(s[i])

\* int(s) raises ValueError unless s is an optional sign followed by digits
\* (the inputs hold no blanks, underscores or non-ASCII digits)
IntOk(s) ==
    /\ Len(s) > 0
    /\ IF s[1] \in {"+", "-"} THEN AllDigits(Tail(s)) ELSE AllDigits(s)

int(s) ==
    IF s[1] = "-" THEN 0 - DigitsVal(Tail(s))
    ELSE IF s[1] = "+" THEN DigitsVal(Tail(s))
    ELSE DigitsVal(s)

startswith(s, p) == Len(s) >= Len(p) /\ SubSeq(s, 1, Len(p)) = p

JoinchatPrefix ==
    <<"h","t","t","p","s",":","/","/","t",".","m","e","/","j","o","i","n","c","h","a","t","/">>

PlusPrefix ==
    <<"h","t","t","p","s",":","/","/","t",".","m","e","/","+">>

\* --------------------------------------------------------------- the store

SetupDbRecreate ==
    /\ db_file' = TRUE
    /\ authorized_users' = <<>>
    /\ invite_links' = <<>>
    /\ UNCHANGED sqlite_sequence

\* CREATE TABLE IF NOT EXISTS: existing rows are kept
setup_db ==
    /\ db_file' = TRUE
    /\ UNCHANGED <<authorized_users, invite_links, sqlite_sequence>>

HasRow(tbl, user_id) == \E i \in 1..Len(tbl) : tbl[i] = user_id

\* user_id INTEGER PRIMARY KEY: the rows are kept in user_id order
InsertRow(tbl, user_id) ==
    LET below == SelectSeq(tbl, LAMBDA x : x <= user_id)
        above == SelectSeq(tbl, LAMBDA x : x > user_id)
    IN  below \o <<user_id>> \o above

NoKeyConflict(tbl, user_id) == FALSE

\* the PRIMARY KEY conflict that makes INSERT OR IGNORE skip the row
KeyConflict(tbl, user_id) == HasRow(tbl, user_id)

\* INSERT OR IGNORE INTO authorized_users (user_id) VALUES (?)
InsertOrIgnore(tbl, user_id) ==
    IF KeyConflict(tbl, user_id) THEN tbl ELSE InsertRow(tbl, user_id)

InsertOrIgnoreRowcount(tbl, user_id) ==
    IF KeyConflict(tbl, user_id) THEN 0 ELSE 1

\* return cursor.rowcount > 0
add_authorized_user(tbl, user_id) == InsertOrIgnoreRowcount(tbl, user_id) > 0

DeleteNothing(tbl, user_id) == tbl

\* DELETE FROM authorized_users WHERE user_id = ?
DeleteRows(tbl, user_id) == SelectSeq(tbl, LAMBDA x : x # user_id)

DeleteRowcount(tbl, user_id) == Len(tbl) - Len(DeleteRows(tbl, user_id))

RemoveResultAlways(tbl, user_id) == DeleteRowcount(tbl, user_id) >= 0

\* return cursor.rowcount > 0
remove_authorized_user(tbl, user_id) == DeleteRowcount(tbl, user_id) > 0

IsAuthorizedAnyRow(tbl, user_id) == tbl # <<>>

\* SELECT 1 FROM authorized_users WHERE user_id = ?; fetchone() is not None
is_authorized(tbl, user_id) == HasRow(tbl, user_id)

\* SELECT user_id FROM authorized_users
get_authorized_users(tbl) == tbl

NextIdStuck(seq, tbl) == seq

\* id INTEGER PRIMARY KEY AUTOINCREMENT: one more than the largest id ever used
MaxId(tbl) == IF tbl = <<>> THEN 0 ELSE tbl[Len(tbl)].id

NextId(seq, tbl) == (IF seq > MaxId(tbl) THEN seq ELSE MaxId(tbl)) + 1

NewLinkAnonymous(seq, tbl, submitter_id, link, now) ==
    [id |-> NextId(seq, tbl), submitter_id |-> 0, link |-> link, timestamp |-> now]

\* INSERT INTO invite_links (submitter_id, link) VALUES (?, ?)
NewLink(seq, tbl, submitter_id, link, now) ==
    [id |-> NextId(seq, tbl), submitter_id |-> submitter_id,
     link |-> link, timestamp |-> now]

\* as with a UNIQUE (submitter_id, link) constraint and INSERT OR IGNORE
AddInviteLinkUnique(tbl, row) ==
    IF \E i \in 1..Len(tbl) :
          tbl[i].submitter_id = row.submitter_id /\ tbl[i].link = row.link
    THEN tbl
    ELSE Append(tbl, row)

AddInviteLinkReplacing(tbl, row) == <<row>>

add_invite_link(tbl, row) == Append(tbl, row)

\* ORDER BY timestamp DESC, and nothing else
OrderedByTimestampDesc(rows) ==
    \A i, j \in 1..Len(rows) : i < j => rows[i].timestamp >= rows[j].timestamp

Permutations(n) ==
    {p \in [1..n -> 1..n] : \A i, j \in 1..n : p[i] = p[j] => i = j}

\* SELECT ... FROM invite_links ORDER BY timestamp DESC: every order of the
\* rows that the ORDER BY clause admits; rows of one timestamp come in any order
get_all_links(tbl) ==
    {rows \in {[i \in 1..Len(tbl) |-> tbl[p[i]]] : p \in Permutations(Len(tbl))} :
        OrderedByTimestampDesc(rows)}

IsAdminAndStored(user_id) == user_id \in ADMIN_IDS /\ HasRow(authorized_users, user_id)

IsAdminOrStored(user_id) == user_id \in ADMIN_IDS \/ HasRow(authorized_users, user_id)

is_admin(user_id) == user_id \in ADMIN_IDS

\* ------------------------------------------------------------ the inputs

\* the characters of the strings that occur as command arguments
Chars(name) ==
    CASE name = "42" -> <<"4","2">>
      [] name = "123456789" -> <<"1","2","3","4","5","6","7","8","9">>
      [] name = "987654321" -> <<"9","8","7","6","5","4","3","2","1">>
      [] name = "notanumber" -> <<"n","o","t","a","n","u","m","b","e","r">>
      [] name = "https://t.me/+abc123" -> PlusPrefix \o <<"a","b","c","1","2","3">>
      [] name = "https://t.me/joinchat/xyz" -> JoinchatPrefix \o <<"x","y","z">>
      [] name = "https://t.me/abc" ->
             <<"h","t","t","p","s",":","/","/","t",".","m","e","/","a","b","c">>

NoArgs == <<>>

\* context.args of add_user / remove_user
UserArgs == {NoArgs, <<"notanumber">>, <<"42">>, <<"123456789">>, <<"987654321">>}

\* context.args of submit_link
LinkArgs ==
    {NoArgs, <<"https://t.me/+abc123">>, <<"https://t.me/joinchat/xyz">>,
     <<"https://t.me/abc">>}

NoUpdate ==
    [cmd |-> "none", sender |-> 0, reply |-> "none", user |-> 0, users |-> <<>>,
     rows |-> <<>>]

NoCalls == [target |-> 0, absent |-> FALSE, results |-> <<>>]

\* ---------------------------------------------------------------- start-up

Init ==
    /\ pc = "import"
    /\ bot_token \in BOOLEAN
    /\ db_file = FALSE
    /\ todo = {}
    /\ authorized_users = <<>>
    /\ invite_links = <<>>
    /\ sqlite_sequence = 0
    /\ clock = 0
    /\ last = NoUpdate
    /\ revoked = {}
    /\ calls = NoCalls

CheckTokenSkipped ==
    /\ pc = "import"
    /\ pc' = "db"
    /\ UNCHANGED <<bot_token, db_file, todo, authorized_users, invite_links,
                   sqlite_sequence, clock, last, revoked, calls>>

\* BOT_TOKEN = os.getenv("BOT_TOKEN"); if not BOT_TOKEN: raise ValueError
CheckToken ==
    /\ pc = "import"
    /\ pc' = IF bot_token THEN "db" ELSE "crashed"
    /\ UNCHANGED <<bot_token, db_file, todo, authorized_users, invite_links,
                   sqlite_sequence, clock, last, revoked, calls>>

\* db = DatabaseManager(DB_FILE); a failing store ends the process
CreateDb(fail) ==
    /\ pc = "db"
    /\ IF fail
       THEN pc' = "crashed" /\ todo' = todo
            /\ UNCHANGED <<db_file, authorized_users, invite_links, sqlite_sequence>>
       ELSE pc' = "main" /\ todo' = ADMIN_IDS /\ setup_db
    /\ UNCHANGED <<bot_token, clock, last, revoked, calls>>

\* for admin_id in ADMIN_IDS: db.add_authorized_user(admin_id)
Bootstrap(admin_id, fail) ==
    /\ pc = "main"
    /\ admin_id \in todo
    /\ IF fail
       THEN pc' = "crashed" /\ UNCHANGED <<todo, authorized_users, revoked>>
       ELSE /\ pc' = pc
            /\ todo' = todo \ {admin_id}
            /\ authorized_users' = InsertOrIgnore(authorized_users, admin_id)
            /\ revoked' = revoked \ {admin_id}
    /\ UNCHANGED <<bot_token, db_file, invite_links, sqlite_sequence, clock,
                   last, calls>>

\* application.run_polling(...)
RunPolling ==
    /\ pc = "main"
    /\ todo = {}
    /\ pc' = "polling"
    /\ UNCHANGED <<bot_token, db_file, todo, authorized_users, invite_links,
                   sqlite_sequence, clock, last, revoked, calls>>

\* the process ends (Ctrl+C, or the start-up error) and is started again on
\* the same bot_data.db
Restart ==
    /\ pc \in {"polling", "crashed"}
    /\ pc' = "import"
    /\ bot_token' \in BOOLEAN
    /\ todo' = {}
    /\ last' = NoUpdate
    /\ UNCHANGED <<db_file, authorized_users, invite_links, sqlite_sequence,
                   clock, revoked, calls>>

\* the wall clock behind CURRENT_TIMESTAMP moves on
Tick ==
    /\ clock < MaxClock
    /\ clock' = clock + 1
    /\ UNCHANGED <<pc, bot_token, db_file, todo, authorized_users, invite_links,
                   sqlite_sequence, last, revoked, calls>>

\* ---------------------------------------------------------------- handlers

\* the update handled and the reply handed to update.message.reply_text, with
\* the user id, the user ids or the link rows the reply shows; "propagated": an exception left
\* the handler and nothing was replied
Handled(cmd, sender, reply, user, users, rows) ==
    last' = [cmd |-> cmd, sender |-> sender, reply |-> reply, user |-> user,
             users |-> users, rows |-> rows]

\* the Application hands an update to its handler while it is polling
Dispatch ==
    /\ pc = "polling"
    /\ UNCHANGED <<pc, bot_token, db_file, todo, clock, calls>>

start(sender) ==
    /\ Dispatch
    /\ Handled("start", sender, "greeting", 0, <<>>, <<>>)
    /\ UNCHANGED <<authorized_users, invite_links, sqlite_sequence, revoked>>

\* int(context.args[0]) raises IndexError or ValueError
BadUserArg(args) == args = NoArgs \/ ~IntOk(Chars(args[1]))

\* the argument lists on which int(context.args[0]) raises, and its value on
\* the others (computed once for all the inputs)
BadUserArgs == {args \in UserArgs : BadUserArg(args)}

ParsedUserArg == [args \in UserArgs \ BadUserArgs |-> int(Chars(args[1]))]

\* add_user without its "except (IndexError, ValueError)" clause: the parsing
\* error falls through to "except Exception"
AddUserNoUsageClause(sender, args, fail) ==
    /\ Dispatch
    /\ UNCHANGED <<invite_links, sqlite_sequence>>
    /\ IF ~is_admin(sender)
       THEN /\ ~fail
            /\ Handled("add_user", sender, "not_admin", 0, <<>>, <<>>)
            /\ UNCHANGED <<authorized_users, revoked>>
       ELSE IF args \in BadUserArgs \/ fail
       THEN /\ Handled("add_user", sender, "internal_error", 0, <<>>, <<>>)
            /\ UNCHANGED <<authorized_users, revoked>>
       ELSE LET user_to_add == ParsedUserArg[args] IN
            /\ authorized_users' = InsertOrIgnore(authorized_users, user_to_add)
            /\ revoked' = revoked \ {user_to_add}
            /\ Handled("add_user", sender,
                       IF add_authorized_user(authorized_users, user_to_add)
                       THEN "added" ELSE "already_present",
                       user_to_add, <<>>, <<>>)

\* fail: the store call raises (only a call that is made can raise)
add_user(sender, args, fail) ==
    /\ Dispatch
    /\ UNCHANGED <<invite_links, sqlite_sequence>>
    /\ IF ~is_admin(sender)
       THEN /\ ~fail
            /\ Handled("add_user", sender, "not_admin", 0, <<>>, <<>>)
            /\ UNCHANGED <<authorized_users, revoked>>
       ELSE IF args \in BadUserArgs
       THEN /\ ~fail
            /\ Handled("add_user", sender, "usage", 0, <<>>, <<>>)
            /\ UNCHANGED <<authorized_users, revoked>>
       ELSE LET user_to_add == ParsedUserArg[args] IN
            IF fail
            THEN /\ Handled("add_user", sender, "internal_error", 0, <<>>, <<>>)
                 /\ UNCHANGED <<authorized_users, revoked>>
            ELSE /\ authorized_users' = InsertOrIgnore(authorized_users, user_to_add)
                 /\ revoked' = revoked \ {user_to_add}
                 /\ Handled("add_user", sender,
                            IF add_authorized_user(authorized_users, user_to_add)
                            THEN "added" ELSE "already_present",
                            user_to_add, <<>>, <<>>)

remove_user(sender, args, fail) ==
    /\ Dispatch
    /\ UNCHANGED <<invite_links, sqlite_sequence>>
    /\ IF ~is_admin(sender)
       THEN /\ ~fail
            /\ Handled("remove_user", sender, "not_admin", 0, <<>>, <<>>)
            /\ UNCHANGED <<authorized_users, revoked>>
       ELSE IF args \in BadUserArgs
       THEN /\ ~fail
            /\ Handled("remove_user", sender, "usage", 0, <<>>, <<>>)
            /\ UNCHANGED <<authorized_users, revoked>>
       ELSE LET user_to_remove == ParsedUserArg[args] IN
            IF fail
            THEN /\ Handled("remove_user", sender, "internal_error", 0, <<>>, <<>>)
                 /\ UNCHANGED <<authorized_users, revoked>>
            ELSE /\ authorized_users' = DeleteRows(authorized_users, user_to_remove)
                 /\ revoked' = revoked \cup {user_to_remove}
                 /\ Handled("remove_user", sender,
                            IF remove_authorized_user(authorized_users, user_to_remove)
                            THEN "removed" ELSE "not_found",
                            user_to_remove, <<>>, <<>>)

list_users(sender, fail) ==
    /\ Dispatch
    /\ UNCHANGED <<authorized_users, invite_links, sqlite_sequence, revoked>>
    /\ IF ~is_admin(sender)
       THEN ~fail /\ Handled("list_users", sender, "not_admin", 0, <<>>, <<>>)
       ELSE IF fail
       THEN Handled("list_users", sender, "internal_error", 0, <<>>, <<>>)
       ELSE LET users == get_authorized_users(authorized_users) IN
            Handled("list_users", sender,
                    IF users # <<>> THEN "users" ELSE "no_users", 0, users, <<>>)

SubmitDeniedNonAdmin(tbl, user_id) == ~is_admin(user_id) /\ ~is_authorized(tbl, user_id)

\* if not db.is_authorized(user_id): reply and return
SubmitDenied(tbl, user_id) == ~is_authorized(tbl, user_id)

InvalidLinkNoHost(link) == ~startswith(link, <<"h","t","t","p","s",":","/","/">>)

\* not link.startswith(...) and not link.startswith(...)
InvalidLink(link) ==
    ~startswith(link, JoinchatPrefix) /\ ~startswith(link, PlusPrefix)

\* the argument lists whose link fails the check (computed once for all the inputs)
InvalidLinkArgs == {args \in LinkArgs \ {NoArgs} : InvalidLink(Chars(args[1]))}

\* failLookup: db.is_authorized raises, outside the try block;
\* failInsert: db.add_invite_link raises, inside it (only a call that is made
\* can raise)
submit_link(sender, args, failLookup, failInsert) ==
    /\ Dispatch
    /\ UNCHANGED <<authorized_users, revoked>>
    /\ IF failLookup
       THEN /\ ~failInsert
            /\ Handled("submit_link", sender, "propagated", 0, <<>>, <<>>)
            /\ UNCHANGED <<invite_links, sqlite_sequence>>
       ELSE IF SubmitDenied(authorized_users, sender)
       THEN /\ ~failInsert
            /\ Handled("submit_link", sender, "not_authorized", 0, <<>>, <<>>)
            /\ UNCHANGED <<invite_links, sqlite_sequence>>
       ELSE IF args = NoArgs
       THEN /\ ~failInsert
            /\ Handled("submit_link", sender, "usage", 0, <<>>, <<>>)
            /\ UNCHANGED <<invite_links, sqlite_sequence>>
       ELSE IF args \in InvalidLinkArgs
       THEN /\ ~failInsert
            /\ Handled("submit_link", sender, "invalid_link", 0, <<>>, <<>>)
            /\ UNCHANGED <<invite_links, sqlite_sequence>>
       ELSE IF failInsert
       THEN /\ Handled("submit_link", sender, "internal_error", 0, <<>>, <<>>)
            /\ UNCHANGED <<invite_links, sqlite_sequence>>
       ELSE LET row == NewLink(sqlite_sequence, invite_links, sender, args[1], clock) IN
            /\ Len(invite_links) < MaxLinks
            /\ invite_links' = add_invite_link(invite_links, row)
            /\ sqlite_sequence' = row.id
            /\ Handled("submit_link", sender, "submitted", 0, <<>>, <<row>>)

list_links(sender, fail) ==
    /\ Dispatch
    /\ UNCHANGED <<authorized_users, invite_links, sqlite_sequence, revoked>>
    /\ IF ~is_admin(sender)
       THEN ~fail /\ Handled("list_links", sender, "not_admin", 0, <<>>, <<>>)
       ELSE IF fail
       THEN Handled("list_links", sender, "internal_error", 0, <<>>, <<>>)
       ELSE \E links \in get_all_links(invite_links) :
            Handled("list_links", sender,
                    IF links # <<>> THEN "links" ELSE "no_links", 0, <<>>, links)

\* one step of the process; a store call of the step raises or not as the
\* set Fail allows
Step(Fail) ==
    \/ CheckToken
    \/ \E fail \in Fail : CreateDb(fail)
    \/ \E admin_id \in ADMIN_IDS, fail \in Fail : Bootstrap(admin_id, fail)
    \/ RunPolling
    \/ Restart
    \/ Tick
    \/ \E sender \in Senders : start(sender)
    \/ \E sender \in Senders, args \in UserArgs, fail \in Fail :
          add_user(sender, args, fail)
    \/ \E sender \in Senders, args \in UserArgs, fail \in Fail :
          remove_user(sender, args, fail)
    \/ \E sender \in Senders, fail \in Fail : list_users(sender, fail)
    \/ \E sender \in Senders, args \in LinkArgs, failLookup, failInsert \in Fail :
          submit_link(sender, args, failLookup, failInsert)
    \/ \E sender \in Senders, fail \in Fail : list_links(sender, fail)

\* the store answers every call
Next == Step({FALSE})

Spec == Init /\ [][Next]_vars

\* the module-level statements of bot.py run to their end: a started process
\* reaches the BOT_TOKEN check and gets past it or raises
SpecStart == Init /\ [][Next]_vars /\ WF_vars(CheckToken)

\* a store call may raise sqlite3.Error
NextFault == Step(BOOLEAN)

SpecFault == Init /\ [][NextFault]_vars

\* ------------------------------------- concurrent add_authorized_user calls

\* the table that holds the ids of S
RECURSIVE TableOf(_)
TableOf(S) ==
    IF S = {} THEN <<>>
    ELSE LET m == CHOOSE x \in S : \A y \in S : y <= x
         IN  Append(TableOf(S \ {m}), m)

\* NumCallers tasks are about to call add_authorized_user with one id, on a
\* table that holds any of the other ids, and the id itself or not
InitAdd ==
    /\ pc = "polling"
    /\ bot_token = TRUE
    /\ db_file = TRUE
    /\ todo = {}
    /\ \E S \in SUBSET Users : authorized_users = TableOf(S)
    /\ invite_links = <<>>
    /\ sqlite_sequence = 0
    /\ clock = 0
    /\ last = NoUpdate
    /\ revoked = {}
    /\ \E u \in Users :
          calls = [target |-> u, absent |-> ~HasRow(authorized_users, u),
                   results |-> [i \in 1..NumCallers |-> "pending"]]

\* caller i runs add_authorized_user: one INSERT OR IGNORE statement and its
\* commit, with no await inside
AddCall(i) ==
    /\ calls.results[i] = "pending"
    /\ authorized_users' = InsertOrIgnore(authorized_users, calls.target)
    /\ calls' = [calls EXCEPT !.results[i] =
                    IF add_authorized_user(authorized_users, calls.target)
                    THEN "true" ELSE "false"]
    /\ UNCHANGED <<pc, bot_token, db_file, todo, invite_links, sqlite_sequence,
                   clock, last, revoked>>

NextAdd == \E i \in 1..NumCallers : AddCall(i)

SpecAdd == InitAdd /\ [][NextAdd]_vars

\* ------------------------------------------------------------------ claims

WellFormedLinkArgs == LinkArgs \ ({NoArgs} \cup InvalidLinkArgs)

Copies(tbl, user_id) == Cardinality({i \in 1..Len(tbl) : tbl[i] = user_id})

\* the step is a handler of cmd leaving its reply (a handler step that leaves
\* the same reply as the step before changes nothing else either)
Handles(cmd) == last' # last /\ last'.cmd = cmd

\* the step leaves the reply to a cmd of sender
Answers(cmd, sender) == last'.cmd = cmd /\ last'.sender = sender

\* C1: a submit_link from a sender that is neither an admin nor in the stored
\* authorized set gets the 'contact an admin' reply and persists no link,
\* whatever its argument is.
C1_UnauthorizedSubmitDenied ==
    [][(/\ Handles("submit_link")
        /\ ~is_admin(last'.sender)
        /\ ~HasRow(authorized_users, last'.sender))
       => (/\ last'.reply = "not_authorized"
           /\ invite_links' = invite_links
           /\ sqlite_sequence' = sqlite_sequence)]_vars

C1_Witness ==
    /\ last.cmd = "submit_link"
    /\ last.sender = 42
    /\ last.reply = "not_authorized"
    /\ ~HasRow(authorized_users, 42)
    /\ 42 \notin revoked

\* C2: after bootstrap, whatever commands came before, a submit_link from a
\* configured admin with a well-formed link is accepted and persisted.
C2_AdminSubmitAlwaysAccepted ==
    [][\A sender \in Senders, args \in WellFormedLinkArgs :
          (/\ Answers("submit_link", sender)
           /\ is_admin(sender)
           /\ submit_link(sender, args, FALSE, FALSE))
          => (/\ last'.reply = "submitted"
              /\ Len(invite_links') = Len(invite_links) + 1
              /\ invite_links'[Len(invite_links')].submitter_id = sender
              /\ invite_links'[Len(invite_links')].link = args[1])]_vars

\* C3: every configured admin id is in the stored authorized set in every
\* state reached after bootstrap has completed.
C3_AdminsStayAuthorized ==
    pc = "polling" => \A admin_id \in ADMIN_IDS : HasRow(authorized_users, admin_id)

\* C4: once an admin's remove_user u has completed, every submit_link by the
\* non-admin sender u handled before u is added again gets the not-authorized
\* reply and persists no link.
C4_RevocationImmediate ==
    [][(/\ Handles("submit_link")
        /\ ~is_admin(last'.sender)
        /\ last'.sender \in revoked)
       => (/\ last'.reply = "not_authorized"
           /\ invite_links' = invite_links)]_vars

C4_Witness ==
    /\ 42 \in revoked
    /\ last.cmd = "submit_link"
    /\ last.sender = 42
    /\ last.reply = "not_authorized"

\* C5: the submitter_id of every record was in the stored authorized set at
\* the moment the record was inserted, also when submit_link handlers
\* interleave with remove_user handlers.
C5_SubmitterAuthorizedAtInsert ==
    [][\A i \in (Len(invite_links) + 1)..Len(invite_links') :
          HasRow(authorized_users, invite_links'[i].submitter_id)]_vars

\* a stored link whose submitter has been removed since
C5_Witness ==
    \E i \in 1..Len(invite_links) :
        /\ invite_links[i].submitter_id \in revoked
        /\ ~HasRow(authorized_users, invite_links[i].submitter_id)

\* C6: N concurrent add_authorized_user calls with one id that is initially
\* absent: exactly one returns true, the others false, and the table then
\* holds the id once; no id is ever in the table twice.
C6_ConcurrentAddOnce ==
    /\ \A u \in Users : Copies(authorized_users, u) <= 1
    /\ Cardinality({i \in DOMAIN calls.results : calls.results[i] = "true"}) <= 1
    /\ (/\ calls.absent
        /\ \A i \in DOMAIN calls.results : calls.results[i] # "pending")
       => (/\ Cardinality({i \in DOMAIN calls.results : calls.results[i] = "true"}) = 1
           /\ Cardinality({i \in DOMAIN calls.results : calls.results[i] = "false"})
                 = NumCallers - 1
           /\ Copies(authorized_users, calls.target) = 1)

C6_Witness ==
    /\ calls.absent
    /\ DOMAIN calls.results = 1..NumCallers
    /\ \A i \in 1..NumCallers : calls.results[i] # "pending"
    /\ calls.results[NumCallers] = "true"

\* C7: add_authorized_user(u) returns true exactly when u was absent, and u is
\* authorized afterwards; remove_authorized_user(u) returns true exactly when
\* u was present, and u is not authorized afterwards; add_user and remove_user
\* reply 'added' / 'already present' and 'removed' / 'not found' accordingly.
C7_AddRemoveResults ==
    [][LET u == last'.user IN
       /\ (Handles("add_user") /\ last'.reply \notin {"not_admin", "usage"})
          => (/\ add_authorized_user(authorized_users, u) <=> ~HasRow(authorized_users, u)
              /\ last'.reply = "added" <=> ~HasRow(authorized_users, u)
              /\ last'.reply = "already_present" <=> HasRow(authorized_users, u)
              /\ is_authorized(authorized_users', u))
       /\ (Handles("remove_user") /\ last'.reply \notin {"not_admin", "usage"})
          => (/\ remove_authorized_user(authorized_users, u) <=> HasRow(authorized_users, u)
              /\ last'.reply = "removed" <=> HasRow(authorized_users, u)
              /\ last'.reply = "not_found" <=> ~HasRow(authorized_users, u)
              /\ ~is_authorized(authorized_users', u))]_vars

\* the second of two add_user 42 in a row
C7_Witness ==
    /\ last.cmd = "add_user"
    /\ last.reply = "already_present"
    /\ last.user = 42
    /\ is_authorized(authorized_users, 42)

\* C8: list_links shows the links newest first: descending by timestamp, and
\* among equal timestamps descending by id.
C8_NewestFirstTiesByIdDesc ==
    (last.cmd = "list_links" /\ last.reply = "links")
    => \A i, j \in 1..Len(last.rows) :
          i < j => \/ last.rows[i].timestamp > last.rows[j].timestamp
                   \/ /\ last.rows[i].timestamp = last.rows[j].timestamp
                      /\ last.rows[i].id > last.rows[j].id

\* C9: a new record's id is greater than the id of every record inserted
\* before it, no two records share an id, and a stored record never changes.
C9_IdsIncreasingImmutable ==
    /\ [](\A i, j \in 1..Len(invite_links) :
            i < j => invite_links[i].id < invite_links[j].id)
    /\ [][/\ Len(invite_links') >= Len(invite_links)
          /\ \A i \in 1..Len(invite_links) : invite_links'[i] = invite_links[i]
          /\ \A j \in (Len(invite_links) + 1)..Len(invite_links') :
                /\ invite_links'[j].id > sqlite_sequence
                /\ \A i \in 1..Len(invite_links) :
                      invite_links'[j].id > invite_links[i].id]_vars

\* two records, inserted by different handlers
C9_Witness ==
    /\ Len(invite_links) = 2
    /\ invite_links[1].submitter_id # invite_links[2].submitter_id
    /\ invite_links[2].id = 2

\* C10: a store failure in any store call of any handler (the authorization
\* lookup of submit_link included) is caught inside the handler and answered
\* with the internal-error reply; it never leaves the handler.
C10_StoreFailureCaught ==
    [][/\ \A sender \in Senders, args \in UserArgs :
             (add_user(sender, args, TRUE) \/ remove_user(sender, args, TRUE))
             => last'.reply = "internal_error"
       /\ \A sender \in Senders :
             (list_users(sender, TRUE) \/ list_links(sender, TRUE))
             => last'.reply = "internal_error"
       /\ \A sender \in Senders, args \in LinkArgs :
             (\/ submit_link(sender, args, TRUE, FALSE)
              \/ submit_link(sender, args, FALSE, TRUE))
             => last'.reply = "internal_error"]_vars

\* ---------------------------------------------------------------------------
\* the commands whose handler starts with "if not is_admin(user_id)"
AdminOnly == {"add_user", "remove_user", "list_users", "list_links"}

\* C11: an admin-only command (add_user, remove_user, list_users, list_links)
\* from a sender outside ADMIN_IDS, whether or not the sender has a row in
\* authorized_users and whatever the arguments, is answered with the
\* permission-denied reply and leaves authorized_users and invite_links (and
\* the id counter) as they were.
C11_NonAdminDenied ==
    [][(last' # last /\ last'.cmd \in AdminOnly /\ last'.sender \notin ADMIN_IDS)
          => /\ last'.reply = "not_admin"
             /\ authorized_users' = authorized_users
             /\ invite_links' = invite_links
             /\ sqlite_sequence' = sqlite_sequence]_vars

\* the authorized non-admin 42 asked for add_user and was denied
C11_Witness ==
    /\ last.cmd = "add_user" /\ last.sender = 42 /\ last.reply = "not_admin"
    /\ HasRow(authorized_users, 42)
    /\ invite_links # <<>>

\* ---------------------------------------------------------------------------
HasAcceptedPrefix(link) ==
    startswith(link, JoinchatPrefix) \/ startswith(link, PlusPrefix)

MalformedLinkArgs == {args \in LinkArgs \ {NoArgs} : ~HasAcceptedPrefix(Chars(args[1]))}

\* C12: every link in invite_links begins with "https://t.me/joinchat/" or
\* "https://t.me/+"; a submit_link whose argument has another shape persists
\* nothing and, once the sender has passed the authorization check, is answered
\* with the validation-error reply; a submit_link without an argument persists
\* nothing and is answered with the usage reply.
C12_OnlyAcceptedPrefixesPersisted ==
    /\ [](\A i \in 1..Len(invite_links) :
              /\ <<invite_links[i].link>> \in LinkArgs \ MalformedLinkArgs
              /\ HasAcceptedPrefix(Chars(invite_links[i].link)))
    /\ [][\A sender \in Senders, args \in MalformedLinkArgs \cup {NoArgs} :
            (Answers("submit_link", sender) /\ submit_link(sender, args, FALSE, FALSE))
            => /\ invite_links' = invite_links
               /\ sqlite_sequence' = sqlite_sequence
               /\ HasRow(authorized_users, sender)
                  => last'.reply = IF args = NoArgs THEN "usage" ELSE "invalid_link"]_vars

\* 42 has a stored link and was then told that its next link is malformed
C12_Witness ==
    /\ last.cmd = "submit_link" /\ last.sender = 42 /\ last.reply = "invalid_link"
    /\ \E i \in 1..Len(invite_links) : invite_links[i].submitter_id = 42

\* ---------------------------------------------------------------------------
\* a string with a character that is neither a digit nor a leading sign
NonNumeric(s) ==
    \E i \in 1..Len(s) : ~IsDigit(s[i]) /\ ~(i = 1 /\ s[1] \in {"+", "-"})

\* the argument lists with no argument or with one that is not a number
NotANumberArgs == {args \in UserArgs : args = NoArgs \/ NonNumeric(Chars(args[1]))}

\* C13: add_user or remove_user from an admin with no argument or with an
\* argument that is not a number is answered with the usage hint and leaves
\* authorized_users and invite_links (and the id counter) unchanged.
C13_BadArgumentUsageHint ==
    [][\A sender \in Senders \cap ADMIN_IDS, args \in NotANumberArgs :
          \A cmd \in {"add_user", "remove_user"} :
            (/\ Answers(cmd, sender)
             /\ IF cmd = "add_user" THEN add_user(sender, args, FALSE)
                                    ELSE remove_user(sender, args, FALSE))
            => /\ last'.reply = "usage"
               /\ authorized_users' = authorized_users
               /\ invite_links' = invite_links
               /\ sqlite_sequence' = sqlite_sequence]_vars

\* the admin's add_user got the usage hint while 42 holds a row and a link
C13_Witness ==
    /\ last.cmd = "add_user" /\ last.sender \in ADMIN_IDS /\ last.reply = "usage"
    /\ HasRow(authorized_users, 42)
    /\ invite_links # <<>>

\* ---------------------------------------------------------------------------
\* C14: invite_links is append-only: a step never removes or alters a stored
\* row (the rows before the step are the first rows after it), remove_user
\* leaves the table as it is, and list_links shows an admin every stored row,
\* those of a submitter whose authorization was removed included.
C14_LinksAppendOnly ==
    /\ [][/\ Len(invite_links') >= Len(invite_links)
          /\ SubSeq(invite_links', 1, Len(invite_links)) = invite_links
          /\ Handles("remove_user") => invite_links' = invite_links]_vars
    /\ []((last.cmd = "list_links" /\ last.reply \in {"links", "no_links"})
            => /\ Len(last.rows) = Len(invite_links)
               /\ \A i \in 1..Len(invite_links) :
                      \E j \in 1..Len(last.rows) : last.rows[j] = invite_links[i])

\* 42 stored a link, lost its row in authorized_users, and the list_links
\* handled afterwards shows the link
C14_Witness ==
    /\ 42 \in revoked /\ ~HasRow(authorized_users, 42)
    /\ last.cmd = "list_links" /\ last.reply = "links"
    /\ \E j \in 1..Len(last.rows) : last.rows[j].submitter_id = 42

\* ---------------------------------------------------------------------------
\* the handler of an admin-only command goes past its admin check
Permitted(cmd, sender) ==
    /\ CASE cmd = "add_user" -> \E args \in UserArgs : add_user(sender, args, FALSE)
         [] cmd = "remove_user" -> \E args \in UserArgs : remove_user(sender, args, FALSE)
         [] cmd = "list_users" -> list_users(sender, FALSE)
         [] cmd = "list_links" -> list_links(sender, FALSE)
    /\ last'.reply # "not_admin"

\* C15: the admin check looks at ADMIN_IDS alone: while the bot serves
\* commands, a member of ADMIN_IDS can run each of add_user, remove_user,
\* list_users and list_links, with or without a row in authorized_users, and
\* the permission-denied reply to such a command goes to the senders outside
\* ADMIN_IDS and to no one else, whatever authorized_users holds.
C15_AdminByStaticSetOnly ==
    /\ pc = "polling"
       => \A sender \in Senders \cap ADMIN_IDS, cmd \in AdminOnly :
              ENABLED Permitted(cmd, sender)
    /\ last.cmd \in AdminOnly
       => (last.reply = "not_admin" <=> last.sender \notin ADMIN_IDS)

\* the admin, whose own row was deleted, added 42
C15_Witness ==
    /\ last.cmd = "add_user" /\ last.sender \in ADMIN_IDS /\ last.reply = "added"
    /\ last.user = 42
    /\ last.sender \in revoked /\ ~HasRow(authorized_users, last.sender)

\* ---------------------------------------------------------------------------
\* the store as a completed start-up leaves it: the file exists and every
\* admin has a row
Bootstrapped == db_file /\ \A admin_id \in ADMIN_IDS : HasRow(authorized_users, admin_id)

\* C16: the start-up sequence (table creation, then the insert of every
\* admin) never touches invite_links, never drops a row of authorized_users
\* and never stores an id twice; run on a store that a start-up has already
\* completed on, each of its steps leaves authorized_users exactly as it was.
C16_BootstrapIdempotent ==
    [][(pc \in {"import", "db", "main"})
         => /\ invite_links' = invite_links
            /\ sqlite_sequence' = sqlite_sequence
            /\ \A u \in Users :
                  /\ HasRow(authorized_users, u) => HasRow(authorized_users', u)
                  /\ Copies(authorized_users', u) <= 1
            /\ Bootstrapped => authorized_users' = authorized_users]_vars

\* a later run has completed its start-up on a store that holds the admins,
\* 42 and a link
C16_Witness ==
    /\ pc = "polling" /\ last = NoUpdate
    /\ Bootstrapped
    /\ authorized_users = <<42, 123456789, 987654321>>
    /\ invite_links # <<>>

\* ---------------------------------------------------------------------------
\* C17: a submit_link of a well-formed link l by a sender s that has a row in
\* authorized_users is confirmed, appends exactly one row with submitter s and
\* link l to invite_links and leaves authorized_users as it was; a list_links
\* reply to an admin shows submitter and link of every stored row; add_user,
\* remove_user, list_users, list_links and start never change invite_links.
C17_SubmitAddsOneListed ==
    /\ [][/\ \A sender \in Senders, args \in WellFormedLinkArgs :
               (/\ Answers("submit_link", sender)
                /\ HasRow(authorized_users, sender)
                /\ submit_link(sender, args, FALSE, FALSE))
               => /\ last'.reply = "submitted"
                  /\ Len(invite_links') = Len(invite_links) + 1
                  /\ SubSeq(invite_links', 1, Len(invite_links)) = invite_links
                  /\ invite_links'[Len(invite_links')].submitter_id = sender
                  /\ invite_links'[Len(invite_links')].link = args[1]
                  /\ authorized_users' = authorized_users
          /\ (last' # last /\ last'.cmd \in AdminOnly \cup {"start"})
               => invite_links' = invite_links]_vars
    /\ []((last.cmd = "list_links" /\ last.reply \in {"links", "no_links"})
            => \A i \in 1..Len(invite_links) :
                  \E j \in 1..Len(last.rows) :
                     /\ last.rows[j].submitter_id = invite_links[i].submitter_id
                     /\ last.rows[j].link = invite_links[i].link)

\* 42 was added, submitted the joinchat link, and the admin's list_links shows
\* an entry with submitter 42 and that link
C17_Witness ==
    /\ last.cmd = "list_links" /\ last.sender \in ADMIN_IDS /\ last.reply = "links"
    /\ \E j \in 1..Len(last.rows) :
          /\ last.rows[j].submitter_id = 42
          /\ last.rows[j].link = "https://t.me/joinchat/xyz"
    /\ \E i \in 1..Len(invite_links) :
          /\ invite_links[i].submitter_id = 42
          /\ invite_links[i].link = "https://t.me/joinchat/xyz"

\* ---------------------------------------------------------------------------
\* C18: nothing deduplicates submissions: a submit_link of a well-formed link
\* that invite_links already holds from the same sender, who still has a row
\* in authorized_users, is confirmed like the first one and appends a further
\* row with that submitter and link and with an id that no stored row has.
C18_NoDeduplication ==
    [][\A sender \in Senders, args \in WellFormedLinkArgs :
          (/\ Answers("submit_link", sender)
           /\ HasRow(authorized_users, sender)
           /\ \E i \in 1..Len(invite_links) :
                 /\ invite_links[i].submitter_id = sender
                 /\ invite_links[i].link = args[1]
           /\ submit_link(sender, args, FALSE, FALSE))
          => /\ last'.reply = "submitted"
             /\ Len(invite_links') = Len(invite_links) + 1
             /\ LET new == invite_links'[Len(invite_links')] IN
                /\ new.submitter_id = sender /\ new.link = args[1]
                /\ \A i \in 1..Len(invite_links) :
                      invite_links'[i] = invite_links[i] /\ invite_links[i].id # new.id]_vars

\* 42 submitted the same link twice: two rows that differ in their id
C18_Witness ==
    /\ last.cmd = "submit_link" /\ last.sender = 42 /\ last.reply = "submitted"
    /\ Len(invite_links) = 2
    /\ invite_links[1].submitter_id = 42 /\ invite_links[2].submitter_id = 42
    /\ invite_links[1].link = invite_links[2].link
    /\ invite_links[1].id # invite_links[2].id

\* ---------------------------------------------------------------------------
\* C19: a run started without BOT_TOKEN ends at the token check: it never
\* gets past the import (no DatabaseManager, no admin insert pending or done,
\* no polling, no command handled), its steps leave the store file, both
\* tables and the id counter untouched, and it does end with the error.
C19_NoTokenNoService ==
    /\ [](~bot_token => (pc \in {"import", "crashed"} /\ todo = {} /\ last = NoUpdate))
    /\ [][(~bot_token) => /\ db_file' = db_file
                          /\ authorized_users' = authorized_users
                          /\ invite_links' = invite_links
                          /\ sqlite_sequence' = sqlite_sequence
                          /\ pc' \notin {"db", "main", "polling"}]_vars
    /\ ((pc = "import" /\ ~bot_token) ~> (pc = "crashed" /\ ~bot_token))

\* the first run ever had no token: it ended with no store file created
C19_Witness == ~bot_token /\ pc = "crashed" /\ ~db_file /\ authorized_users = <<>>

====
